---------------------------- MODULE Spec2Model ----------------------------
(***************************************************************************)
(* Model of the UI controller of the "History of Windows" site             *)
(* (src/js/script.js): class WindowsHistoryApp, its storage helpers and    *)
(* the debounced scroll handler.                                           *)
(*                                                                         *)
(* The browser is the environment: it owns localStorage (which may throw   *)
(* on any access), the system colour-scheme preference, the page's         *)
(* elements, the scroll offset and the timers.  Event dispatch is          *)
(* modelled as the browser does it: an event invokes every listener        *)
(* registered for it, one after another, and nothing else runs in          *)
(* between (variable `running`).                                           *)
(***************************************************************************)
EXTENDS Integers, Sequences, FiniteSets, TLC

(***************************************************************************)
(* Bounds of the model (not program constants).                            *)
(***************************************************************************)
\* init() calls per page load, the constructor's included
MaxInitCalls == 2
\* granularity of the clock, in ms
TickMs == 40
\* scroll events counted within one coalescing window (the count saturates)
MaxBurst == 3
\* content blocks matched by animateIntro's selector
MaxBlocks == 3
\* characters typed into the search field
MaxQueryLen == 3

(***************************************************************************)
(* Program constants.                                                      *)
(***************************************************************************)
SCROLL_THRESHOLD == 300
\* the delay setupEventListeners passes to debounce
SCROLL_DEBOUNCE == 80
ANIMATION_DELAY == 120

Themes == {"light", "dark"}
\* what localStorage.getItem returns for a missing key, and what
\* safeGetStorage returns on failure
Null == "<null>"
\* contents of the 'site-theme' key the page may find: missing, the two
\* themes, the empty string, and a string that is no theme
StoredValues == {Null, "light", "dark", "", "blue"}
\* the elements setupElements looks up
Elements == {"themeToggle", "homeBtn", "scrollToSearch", "search",
             "scrollTopBtn", "searchForm"}
\* the search form's text field, which handleSearch looks up
QueryField == "q"
\* the pages the controller is served with: complete, and lacking the
\* theme button and/or the back-to-top button
Pages == {Elements \cup {QueryField},
          (Elements \ {"themeToggle"}) \cup {QueryField},
          (Elements \ {"scrollTopBtn"}) \cup {QueryField},
          (Elements \ {"themeToggle", "scrollTopBtn"}) \cup {QueryField}}
\* vertical scroll offsets around the threshold
ScrollPositions == {0, SCROLL_THRESHOLD, SCROLL_THRESHOLD + 1, 2 * SCROLL_THRESHOLD}
\* the listeners the controller registers
ListenerKinds == {"DOMContentLoaded", "themeClick", "homeClick", "searchClick",
                  "scroll", "topClick", "topKeydown", "submit", "mqChange"}
NoTimer == -1
\* animation-delay of a block animateIntro has not styled
NoDelay == [value |-> 0, unit |-> "unset"]
\* where keyboard focus is when it is on none of the looked-up elements
Body == "body"
\* keys pressed on the back-to-top button
Keys == {"Enter", " ", "Tab"}
\* characters of a search query: a blank and a letter
Chars == {" ", "w"}
\* the form has no input[name="q"]
NoField == <<"<no field>">>
\* nothing recorded
NoSearch == <<"<none>">>

VARIABLES
    \* ---- environment (survives page reloads)
    storage,        \* value under STORAGE_KEYS.THEME, Null when the key is missing
    sysDark,        \* matchMedia('(prefers-color-scheme: dark)').matches
    dom,            \* elements present in the served page
    \* ---- the page and the controller instance
    loaded,         \* DOMContentLoaded has been dispatched
    currentTheme,   \* this.currentTheme
    isInitialized,  \* this.isInitialized
    refs,           \* element fields of the instance that are not null
    dataTheme,      \* data-theme attribute of the root element ("none": not set)
    themeLabel,     \* text / aria-label of the theme button
    listeners,      \* number of listeners registered, per kind
    initCalls,      \* init() calls made on this page
    setupRuns,      \* executions of the setup sequence on this page
    scrollY,        \* window.scrollY
    visible,        \* back-to-top button carries class 'visible'
    timers,         \* per scroll listener: ms left on its debounce timer, or NoTimer
    running,        \* event being dispatched and listeners still to be invoked
    uncaught,       \* an exception escaped a handler
    burst,          \* scroll events the listeners received since a timer last
                    \* started from rest (0: none on this page)
    runs,           \* toggleScrollButton runs since the last scroll event
    focus,          \* element holding keyboard focus, or Body
    lastScroll,     \* target of the last programmatic smooth scroll
    scrollWarned,   \* smoothScrollToElement logged its warning
    field,          \* value of input[name="q"], or NoField
    searchLog,      \* query recorded by the last handleSearch that logged
    defaultPrevented, \* preventDefault() was called on the event dispatched last
    blocks,         \* number of elements animateIntro's selector matches
    fade,           \* per such element: class 'fade-in' and animation-delay
    ariaSet,        \* aria-label / aria-hidden set on the back-to-top button
    \* ---- history
    lastToggle,     \* theme of the user's last toggle and whether its write succeeded
    toggled,        \* the user has toggled on this page
    initFrom        \* branch taken by determineInitialTheme on this page

vars == <<storage, sysDark, dom, loaded, currentTheme, isInitialized, refs,
          dataTheme, themeLabel, listeners, initCalls, setupRuns, scrollY,
          visible, timers, running, uncaught, burst, runs, focus, lastScroll,
          scrollWarned, field, searchLog, defaultPrevented, blocks, fade,
          ariaSet, lastToggle, toggled, initFrom>>

envVars == <<storage, sysDark, dom>>
themeVars == <<currentTheme, dataTheme, themeLabel>>
scrollVars == <<scrollY, visible, timers, burst, runs>>
uiVars == <<focus, lastScroll, scrollWarned, field, searchLog, defaultPrevented>>
introVars == <<blocks, fade, ariaSet>>
histVars == <<lastToggle, toggled, initFrom>>
lifeVars == <<loaded, isInitialized, refs, listeners, initCalls, setupRuns>>

(***************************************************************************)
(* Helpers of the script.                                                  *)
(***************************************************************************)
\* variant: the arguments of setItem swapped, so the key's name is stored
safeSetStorageKey(store, value, throws) ==
    [store |-> IF throws THEN store ELSE "site-theme",
     ok |-> ~throws,
     raised |-> FALSE]

\* variant: no try/catch around setItem
safeSetStorageNoCatch(store, value, throws) ==
    [store |-> IF throws THEN store ELSE value,
     ok |-> ~throws,
     raised |-> throws]

\* try { localStorage.setItem(key, value); return true } catch { return false }
safeSetStorage(store, value, throws) ==
    [store |-> IF throws THEN store ELSE value,
     ok |-> ~throws,
     raised |-> FALSE]

\* try { return localStorage.getItem(key) } catch { return null }
safeGetStorage(store, throws) ==
    [value |-> IF throws THEN Null ELSE store,
     raised |-> FALSE]

\* JavaScript truthiness of a getItem result
Truthy(v) == v # Null /\ v # ""

\* prefersDark ? 'dark' : 'light'
SystemTheme(prefersDark) == IF prefersDark THEN "dark" ELSE "light"

\* this.currentTheme === 'dark' ? 'light' : 'dark'
Opposite(theme) == IF theme = "dark" THEN "light" ELSE "dark"

\* the button offers the other theme
\* variant: the button always offers the dark theme
LabelForDarkOnly(theme) == "toDark"

LabelFor(theme) == IF theme = "dark" THEN "toLight" ELSE "toDark"

\* the part of the state applyTheme works on
ThemeState == [currentTheme |-> currentTheme, dataTheme |-> dataTheme,
               themeLabel |-> themeLabel, storage |-> storage, raised |-> FALSE]

applyTheme(s, themeBtn, theme, save, wthrows) ==
    LET w == IF save THEN safeSetStorage(s.storage, theme, wthrows)
                     ELSE [store |-> s.storage, ok |-> TRUE, raised |-> FALSE]
    IN [currentTheme |-> theme,
        dataTheme |-> theme,
        themeLabel |-> IF themeBtn THEN LabelFor(theme) ELSE s.themeLabel,
        storage |-> w.store,
        raised |-> s.raised \/ w.raised]

\* variant: only 'dark' is accepted as a stored theme
determineInitialThemeDarkOnly(s, themeBtn, prefersDark, rthrows) ==
    LET storedTheme == safeGetStorage(s.storage, rthrows)
    IN IF storedTheme.value = "dark"
       THEN applyTheme(s, themeBtn, storedTheme.value, FALSE, FALSE)
       ELSE applyTheme(s, themeBtn, SystemTheme(prefersDark), FALSE, FALSE)

\* variant: the system theme is applied with applyTheme's default save = true
determineInitialThemeSaves(s, themeBtn, prefersDark, rthrows) ==
    LET storedTheme == safeGetStorage(s.storage, rthrows)
    IN IF storedTheme.value = "dark" \/ storedTheme.value = "light"
       THEN applyTheme(s, themeBtn, storedTheme.value, FALSE, FALSE)
       ELSE applyTheme(s, themeBtn, SystemTheme(prefersDark), TRUE, FALSE)

\* variant: the stored theme is not consulted
determineInitialThemeSystemOnly(s, themeBtn, prefersDark, rthrows) ==
    applyTheme(s, themeBtn, SystemTheme(prefersDark), FALSE, FALSE)

determineInitialTheme(s, themeBtn, prefersDark, rthrows) ==
    LET storedTheme == safeGetStorage(s.storage, rthrows)
        t == [s EXCEPT !.raised = s.raised \/ storedTheme.raised]
    IN IF storedTheme.value = "dark" \/ storedTheme.value = "light"
       THEN applyTheme(t, themeBtn, storedTheme.value, FALSE, FALSE)
       ELSE applyTheme(t, themeBtn, SystemTheme(prefersDark), FALSE, FALSE)

\* variant: the system theme is applied with applyTheme's default save = true
handleSystemThemeChangeSaves(s, themeBtn, matches, rthrows) ==
    LET userChoice == safeGetStorage(s.storage, rthrows)
        t == [s EXCEPT !.raised = s.raised \/ userChoice.raised]
    IN IF ~Truthy(userChoice.value)
       THEN applyTheme(t, themeBtn, SystemTheme(matches), TRUE, FALSE)
       ELSE t

\* variant: the system theme is applied whatever is stored
handleSystemThemeChangeAlways(s, themeBtn, matches, rthrows) ==
    applyTheme(s, themeBtn, SystemTheme(matches), FALSE, FALSE)

\* if (!userChoice) this.applyTheme(e.matches ? 'dark' : 'light', false)
handleSystemThemeChange(s, themeBtn, matches, rthrows) ==
    LET userChoice == safeGetStorage(s.storage, rthrows)
        t == [s EXCEPT !.raised = s.raised \/ userChoice.raised]
    IN IF ~Truthy(userChoice.value)
       THEN applyTheme(t, themeBtn, SystemTheme(matches), FALSE, FALSE)
       ELSE t

\* variant: the toggle applies the theme without saving it
toggleThemeNoSave(s, themeBtn, wthrows) ==
    LET newTheme == Opposite(s.currentTheme)
    IN applyTheme(s, themeBtn, newTheme, FALSE, wthrows)

toggleTheme(s, themeBtn, wthrows) ==
    LET newTheme == Opposite(s.currentTheme)
    IN applyTheme(s, themeBtn, newTheme, TRUE, wthrows)

\* variant: the threshold itself counts as beyond it
toggleScrollButtonInclusive(scrollTopBtn, y, vis) ==
    IF ~scrollTopBtn THEN vis ELSE y >= SCROLL_THRESHOLD

\* const isVisible = window.scrollY > CONFIG.SCROLL_THRESHOLD
toggleScrollButton(scrollTopBtn, y, vis) ==
    IF ~scrollTopBtn THEN vis ELSE y > SCROLL_THRESHOLD

\* variant: the wrapper never schedules the call
debounceNeverArmed(timer, delay) == NoTimer

\* the wrapper debounce returns: clearTimeout, then setTimeout(fn, delay)
debounce(timer, delay) == delay

(***************************************************************************)
(* Event dispatch.                                                         *)
(***************************************************************************)
Idle == running.left = 0
Dispatch(ev, n) == IF n = 0 THEN [ev |-> "none", left |-> 0]
                            ELSE [ev |-> ev, left |-> n]
Invoking(ev) == running.ev = ev /\ running.left > 0
Invoked == Dispatch(running.ev, running.left - 1)

SetTheme(r) ==
    /\ currentTheme' = r.currentTheme
    /\ dataTheme' = r.dataTheme
    /\ themeLabel' = r.themeLabel
    /\ storage' = r.storage
    /\ uncaught' = (uncaught \/ r.raised)

NoListeners == [k \in ListenerKinds |-> 0]

(***************************************************************************)
(* The state after the script has run: `new WindowsHistoryApp()` has set   *)
(* the fields and called init(), which registered its DOMContentLoaded     *)
(* callback.                                                               *)
(***************************************************************************)
FreshPage ==
    /\ loaded = FALSE
    /\ currentTheme = "light"
    /\ isInitialized = FALSE
    /\ refs = {}
    /\ dataTheme = "none"
    /\ themeLabel = "markup"
    /\ listeners = [NoListeners EXCEPT !["DOMContentLoaded"] = 1]
    /\ initCalls = 1
    /\ setupRuns = 0
    /\ scrollY = 0
    /\ visible = FALSE
    /\ timers = <<>>
    /\ burst = 0
    /\ runs = 0
    /\ running = Dispatch("none", 0)
    /\ toggled = FALSE
    /\ initFrom = "none"
    /\ focus = Body
    /\ lastScroll = "none"
    /\ scrollWarned = FALSE
    /\ field = IF {"searchForm", QueryField} \subseteq dom THEN <<>> ELSE NoField
    /\ searchLog = NoSearch
    /\ defaultPrevented = FALSE
    /\ fade = [i \in 1..blocks |-> [fadeIn |-> FALSE, delay |-> NoDelay]]
    /\ ariaSet = FALSE

Init ==
    /\ storage \in StoredValues
    /\ sysDark \in BOOLEAN
    /\ dom \in Pages
    /\ blocks = MaxBlocks
    /\ FreshPage
    /\ uncaught = FALSE
    /\ lastToggle = [theme |-> "none", saved |-> FALSE]

(***************************************************************************)
(* init(): the guard reads isInitialized, which only the DOMContentLoaded  *)
(* callback sets.                                                          *)
(***************************************************************************)
init ==
    /\ Idle
    /\ initCalls < MaxInitCalls
    /\ initCalls' = initCalls + 1
    /\ listeners' = IF isInitialized THEN listeners
                    ELSE [listeners EXCEPT !["DOMContentLoaded"] = @ + 1]
    /\ UNCHANGED <<envVars, themeVars, scrollVars, histVars, loaded,
                   isInitialized, refs, setupRuns, running, uncaught,
                   uiVars, introVars>>

\* the browser dispatches DOMContentLoaded, once per page
DOMContentLoaded ==
    /\ Idle
    /\ ~loaded
    /\ loaded' = TRUE
    /\ running' = Dispatch("DOMContentLoaded", listeners["DOMContentLoaded"])
    /\ UNCHANGED <<envVars, themeVars, scrollVars, histVars, isInitialized,
                   refs, listeners, initCalls, setupRuns, uncaught,
                   uiVars, introVars>>

\* variant: the search-trigger listener is added whenever the button exists
setupEventListenersAnySection(l, found) ==
    [k \in ListenerKinds |->
        l[k] + (CASE k = "themeClick" -> IF "themeToggle" \in found THEN 1 ELSE 0
                  [] k = "homeClick" -> IF "homeBtn" \in found THEN 1 ELSE 0
                  [] k = "searchClick" -> IF "scrollToSearch" \in found THEN 1 ELSE 0
                  [] k \in {"scroll", "topClick", "topKeydown"} ->
                        IF "scrollTopBtn" \in found THEN 1 ELSE 0
                  [] k = "submit" -> IF "searchForm" \in found THEN 1 ELSE 0
                  [] k = "mqChange" -> 1
                  [] OTHER -> 0)]

\* listeners added by setupEventListeners and setupTheme for the page `found`
setupEventListeners(l, found) ==
    [k \in ListenerKinds |->
        l[k] + (CASE k = "themeClick" -> IF "themeToggle" \in found THEN 1 ELSE 0
                  [] k = "homeClick" -> IF "homeBtn" \in found THEN 1 ELSE 0
                  [] k = "searchClick" ->
                        IF {"scrollToSearch", "search"} \subseteq found THEN 1 ELSE 0
                  [] k \in {"scroll", "topClick", "topKeydown"} ->
                        IF "scrollTopBtn" \in found THEN 1 ELSE 0
                  [] k = "submit" -> IF "searchForm" \in found THEN 1 ELSE 0
                  [] k = "mqChange" -> 1
                  [] OTHER -> 0)]

\* variant: the accessibility attributes are set without the null check
setupElementsUnguarded(page) ==
    [refs |-> page \cap Elements,
     aria |-> "scrollTopBtn" \in page,
     raised |-> "scrollTopBtn" \notin page]

\* the element fields after the lookups, and the accessibility attributes
\* put on the back-to-top button when it was found
setupElements(page) ==
    [refs |-> page \cap Elements,
     aria |-> "scrollTopBtn" \in page,
     raised |-> FALSE]

\* variant: the delay is computed from a 1-based index
animateIntroOneBased(fadeElements) ==
    [i \in 1..Len(fadeElements) |->
        [fadeIn |-> TRUE,
         delay |-> [value |-> i * ANIMATION_DELAY, unit |-> "ms"]]]

\* el.classList.add('fade-in'); el.style.animationDelay = `${index * 120}ms`
\* (forEach's index starts at 0, the sequence's at 1)
animateIntro(fadeElements) ==
    [i \in 1..Len(fadeElements) |->
        [fadeIn |-> TRUE,
         delay |-> [value |-> (i - 1) * ANIMATION_DELAY, unit |-> "ms"]]]

\* one callback registered by init(): setupElements, setupEventListeners,
\* setupTheme, animateIntro, isInitialized = true
RunSetup(rthrows) ==
    /\ Invoking("DOMContentLoaded")
    /\ running' = Invoked
    /\ refs' = setupElements(dom).refs
    /\ ariaSet' = (ariaSet \/ setupElements(dom).aria)
    /\ listeners' = setupEventListeners(listeners, setupElements(dom).refs)
    /\ timers' = IF "scrollTopBtn" \in dom THEN Append(timers, NoTimer) ELSE timers
    /\ LET r == determineInitialTheme(ThemeState, "themeToggle" \in dom, sysDark, rthrows)
       IN SetTheme([r EXCEPT !.raised = @ \/ setupElements(dom).raised])
    /\ fade' = animateIntro(fade)
    /\ initFrom' = IF safeGetStorage(storage, rthrows).value \in Themes
                   THEN "stored" ELSE "system"
    /\ isInitialized' = TRUE
    /\ setupRuns' = setupRuns + 1
    /\ UNCHANGED <<sysDark, dom, loaded, initCalls, scrollY, visible, burst,
                   runs, lastToggle, toggled, uiVars, blocks>>

(***************************************************************************)
(* Theme.                                                                  *)
(***************************************************************************)
\* the user activates the theme button
ClickThemeButton ==
    /\ Idle
    /\ "themeToggle" \in dom
    /\ running' = Dispatch("themeClick", listeners["themeClick"])
    /\ UNCHANGED <<envVars, themeVars, scrollVars, histVars, lifeVars, uncaught,
                   uiVars, introVars>>

\* one click listener: () => this.toggleTheme()
ToggleTheme(wthrows) ==
    /\ Invoking("themeClick")
    /\ running' = Invoked
    /\ SetTheme(toggleTheme(ThemeState, "themeToggle" \in refs, wthrows))
    /\ lastToggle' = [theme |-> Opposite(currentTheme), saved |-> ~wthrows]
    /\ toggled' = TRUE
    /\ UNCHANGED <<sysDark, dom, scrollVars, lifeVars, initFrom, uiVars, introVars>>

\* the system colour scheme changes; the media query dispatches 'change'
SystemPreferenceChange ==
    /\ Idle
    /\ sysDark' = ~sysDark
    /\ running' = Dispatch("mqChange", listeners["mqChange"])
    /\ UNCHANGED <<storage, dom, themeVars, scrollVars, histVars, lifeVars, uncaught,
                   uiVars, introVars>>

\* one change listener: (e) => this.handleSystemThemeChange(e)
HandleSystemThemeChange(rthrows) ==
    /\ Invoking("mqChange")
    /\ running' = Invoked
    /\ SetTheme(handleSystemThemeChange(ThemeState, "themeToggle" \in refs, sysDark, rthrows))
    /\ UNCHANGED <<sysDark, dom, scrollVars, histVars, lifeVars, uiVars, introVars>>

(***************************************************************************)
(* Scrolling.                                                              *)
(***************************************************************************)
Max(a, b) == IF a > b THEN a ELSE b
Min(a, b) == IF a < b THEN a ELSE b
\* no debounce timer is pending
TimersIdle == \A i \in 1..Len(timers) : timers[i] = NoTimer

\* the offset becomes y; if that moves the page, a scroll event reaches
\* every scroll listener (a debounced wrapper), which restarts its timer
ScrolledTo(y) ==
    /\ scrollY' = y
    /\ IF y = scrollY
       THEN UNCHANGED <<timers, burst, runs>>
       ELSE /\ timers' = [i \in 1..Len(timers) |->
                            debounce(timers[i], SCROLL_DEBOUNCE)]
            /\ burst' = IF Len(timers) = 0 THEN burst
                        ELSE IF TimersIdle THEN 1
                        ELSE Min(burst + 1, MaxBurst)
            /\ runs' = 0

\* the user scrolls the page to offset y
Scroll(y) ==
    /\ Idle
    /\ y # scrollY
    /\ ScrolledTo(y)
    /\ UNCHANGED <<envVars, themeVars, histVars, lifeVars, visible, running, uncaught,
                   uiVars, introVars>>


\* time passes while a timer is running
Tick ==
    /\ Idle
    /\ \E i \in 1..Len(timers) : timers[i] > 0
    /\ timers' = [i \in 1..Len(timers) |->
                    IF timers[i] > 0 THEN Max(0, timers[i] - TickMs) ELSE timers[i]]
    /\ UNCHANGED <<envVars, themeVars, histVars, lifeVars, scrollY, visible,
                   burst, runs, running, uncaught, uiVars, introVars>>

\* the oldest expired timer fires: () => this.toggleScrollButton()
FireTimer ==
    /\ Idle
    /\ \E i \in 1..Len(timers) :
        /\ timers[i] = 0
        /\ \A j \in 1..(i - 1) : timers[j] # 0
        /\ timers' = [timers EXCEPT ![i] = NoTimer]
    /\ visible' = toggleScrollButton("scrollTopBtn" \in refs, scrollY, visible)
    /\ runs' = runs + 1
    /\ UNCHANGED <<envVars, themeVars, histVars, lifeVars, scrollY, burst,
                   running, uncaught, uiVars, introVars>>


(***************************************************************************)
(* Navigation: the home button, the back-to-top button (click, keyboard)   *)
(* and the search-trigger button.  Activating a control puts keyboard      *)
(* focus on it.  The hover listeners of setupHoverEffects only switch a    *)
(* CSS class on the hovered block and are left out.                        *)
(***************************************************************************)
\* where the search section lies
SearchOffset == 2 * SCROLL_THRESHOLD

\* the control an event of kind ev was fired on
TriggerOf(ev) == IF ev = "homeClick" THEN "homeBtn" ELSE "scrollTopBtn"

KeyEvent(key) == CASE key = "Enter" -> "keydownEnter"
                   [] key = " " -> "keydownSpace"
                   [] OTHER -> "keydownOther"

\* window.scrollTo({top: 0}); if (this.scrollTopBtn) this.scrollTopBtn.focus()
scrollToTop(scrollTopBtn, focused) ==
    [top |-> 0,
     focus |-> IF scrollTopBtn THEN "scrollTopBtn" ELSE focused]

\* if (!element) { console.warn(...); return }  element.scrollIntoView(...)
smoothScrollToElement(element) ==
    [warned |-> ~element, scrolled |-> element]

ClickHomeButton ==
    /\ Idle
    /\ "homeBtn" \in dom
    /\ focus' = "homeBtn"
    /\ defaultPrevented' = FALSE
    /\ running' = Dispatch("homeClick", listeners["homeClick"])
    /\ UNCHANGED <<envVars, themeVars, scrollVars, histVars, lifeVars, uncaught,
                   lastScroll, scrollWarned, field, searchLog, introVars>>

ClickScrollTop ==
    /\ Idle
    /\ "scrollTopBtn" \in dom
    /\ focus' = "scrollTopBtn"
    /\ defaultPrevented' = FALSE
    /\ running' = Dispatch("topClick", listeners["topClick"])
    /\ UNCHANGED <<envVars, themeVars, scrollVars, histVars, lifeVars, uncaught,
                   lastScroll, scrollWarned, field, searchLog, introVars>>

\* a key is pressed while the back-to-top button has focus
KeydownScrollTop(key) ==
    /\ Idle
    /\ "scrollTopBtn" \in dom
    /\ focus' = "scrollTopBtn"
    /\ defaultPrevented' = FALSE
    /\ running' = Dispatch(KeyEvent(key), listeners["topKeydown"])
    /\ UNCHANGED <<envVars, themeVars, scrollVars, histVars, lifeVars, uncaught,
                   lastScroll, scrollWarned, field, searchLog, introVars>>

\* one listener that calls this.scrollToTop(): the click listeners, and the
\* keydown listener for Enter and Space after e.preventDefault()
ScrollToTop ==
    /\ \/ Invoking("homeClick")
       \/ Invoking("topClick")
       \/ Invoking("keydownEnter")
       \/ Invoking("keydownSpace")
    /\ running' = Invoked
    /\ defaultPrevented' = (defaultPrevented
                              \/ running.ev \in {"keydownEnter", "keydownSpace"})
    /\ LET r == scrollToTop("scrollTopBtn" \in refs, focus)
       IN /\ ScrolledTo(r.top)
          /\ focus' = r.focus
    /\ lastScroll' = "top"
    /\ UNCHANGED <<envVars, themeVars, visible, histVars, lifeVars, uncaught,
                   scrollWarned, field, searchLog, introVars>>

\* the keydown listener for any other key
KeydownIgnored ==
    /\ Invoking("keydownOther")
    /\ running' = Invoked
    /\ UNCHANGED <<envVars, themeVars, scrollVars, histVars, lifeVars, uncaught,
                   uiVars, introVars>>

ClickSearchTrigger ==
    /\ Idle
    /\ "scrollToSearch" \in dom
    /\ focus' = "scrollToSearch"
    /\ defaultPrevented' = FALSE
    /\ running' = Dispatch("searchClick", listeners["searchClick"])
    /\ UNCHANGED <<envVars, themeVars, scrollVars, histVars, lifeVars, uncaught,
                   lastScroll, scrollWarned, field, searchLog, introVars>>

\* one click listener: () => smoothScrollToElement(this.searchSection)
ScrollToSearch ==
    /\ Invoking("searchClick")
    /\ running' = Invoked
    /\ LET r == smoothScrollToElement("search" \in refs)
       IN /\ scrollWarned' = (scrollWarned \/ r.warned)
          /\ IF r.scrolled
             THEN ScrolledTo(SearchOffset) /\ lastScroll' = "search"
             ELSE UNCHANGED <<scrollY, timers, burst, runs, lastScroll>>
    /\ UNCHANGED <<envVars, themeVars, visible, histVars, lifeVars, uncaught,
                   focus, field, searchLog, defaultPrevented, introVars>>

(***************************************************************************)
(* Search form.                                                            *)
(***************************************************************************)
\* what the user may have typed
Queries == UNION {[1..n -> Chars] : n \in 0..MaxQueryLen}

\* String.prototype.trim
RECURSIVE trimStart(_)
trimStart(str) == IF str # <<>> /\ Head(str) = " " THEN trimStart(Tail(str)) ELSE str
RECURSIVE trimEnd(_)
trimEnd(str) == IF str # <<>> /\ str[Len(str)] = " "
                THEN trimEnd(SubSeq(str, 1, Len(str) - 1)) ELSE str
trim(str) == trimEnd(trimStart(str))

\* variant: the value is logged as typed
handleSearchUntrimmed(input, log) ==
    IF input # NoField /\ trim(input) # <<>>
    THEN [searchLog |-> input, prevented |-> FALSE]
    ELSE [searchLog |-> log, prevented |-> FALSE]

\* if (input && input.value.trim()) console.log(input.value.trim());
\* e.preventDefault() is not called
handleSearch(input, log) ==
    IF input # NoField /\ trim(input) # <<>>
    THEN [searchLog |-> trim(input), prevented |-> FALSE]
    ELSE [searchLog |-> log, prevented |-> FALSE]

\* the user submits the form with q typed into its field (if it has one)
SubmitSearch(q) ==
    /\ Idle
    /\ "searchForm" \in dom
    /\ field # NoField
    /\ field' = q
    /\ searchLog' = NoSearch
    /\ defaultPrevented' = FALSE
    /\ running' = Dispatch("submit", listeners["submit"])
    /\ UNCHANGED <<envVars, themeVars, scrollVars, histVars, lifeVars, uncaught,
                   focus, lastScroll, scrollWarned, introVars>>

\* the user submits a form that has no field named q
SubmitWithoutField ==
    /\ Idle
    /\ "searchForm" \in dom
    /\ field = NoField
    /\ searchLog' = NoSearch
    /\ defaultPrevented' = FALSE
    /\ running' = Dispatch("submit", listeners["submit"])
    /\ UNCHANGED <<envVars, themeVars, scrollVars, histVars, lifeVars, uncaught,
                   focus, lastScroll, scrollWarned, field, introVars>>

\* one submit listener: (e) => this.handleSearch(e)
HandleSearch ==
    /\ Invoking("submit")
    /\ running' = Invoked
    /\ LET r == handleSearch(field, searchLog)
       IN /\ searchLog' = r.searchLog
          /\ defaultPrevented' = (defaultPrevented \/ r.prevented)
    /\ UNCHANGED <<envVars, themeVars, scrollVars, histVars, lifeVars, uncaught,
                   focus, lastScroll, scrollWarned, field, introVars>>

(***************************************************************************)
(* The user reloads the page: a new document and a new controller;         *)
(* localStorage and the system preference stay.                            *)
(***************************************************************************)
Reload ==
    /\ Idle
    /\ loaded
    /\ loaded' = FALSE
    /\ currentTheme' = "light"
    /\ isInitialized' = FALSE
    /\ refs' = {}
    /\ dataTheme' = "none"
    /\ themeLabel' = "markup"
    /\ listeners' = [NoListeners EXCEPT !["DOMContentLoaded"] = 1]
    /\ initCalls' = 1
    /\ setupRuns' = 0
    /\ scrollY' = 0
    /\ visible' = FALSE
    /\ timers' = <<>>
    /\ burst' = 0
    /\ runs' = 0
    /\ running' = Dispatch("none", 0)
    /\ toggled' = FALSE
    /\ initFrom' = "none"
    /\ focus' = Body
    /\ lastScroll' = "none"
    /\ scrollWarned' = FALSE
    /\ field' = IF {"searchForm", QueryField} \subseteq dom THEN <<>> ELSE NoField
    /\ searchLog' = NoSearch
    /\ defaultPrevented' = FALSE
    /\ fade' = [i \in 1..blocks |-> [fadeIn |-> FALSE, delay |-> NoDelay]]
    /\ ariaSet' = FALSE
    /\ UNCHANGED <<envVars, blocks, uncaught, lastToggle>>

Next ==
    \/ init
    \/ DOMContentLoaded
    \/ \E rthrows \in BOOLEAN : RunSetup(rthrows)
    \/ ClickThemeButton
    \/ \E wthrows \in BOOLEAN : ToggleTheme(wthrows)
    \/ SystemPreferenceChange
    \/ \E rthrows \in BOOLEAN : HandleSystemThemeChange(rthrows)
    \/ \E y \in ScrollPositions : Scroll(y)
    \/ Tick
    \/ FireTimer
    \/ Reload

Spec == Init /\ [][Next]_vars

(***************************************************************************)
(* The same controller with a storage that never fails.                    *)
(***************************************************************************)
NextReliable ==
    \/ init
    \/ DOMContentLoaded
    \/ RunSetup(FALSE)
    \/ ClickThemeButton
    \/ ToggleTheme(FALSE)
    \/ SystemPreferenceChange
    \/ HandleSystemThemeChange(FALSE)
    \/ \E y \in ScrollPositions : Scroll(y)
    \/ Tick
    \/ FireTimer
    \/ Reload

SpecReliable == Init /\ [][NextReliable]_vars

(***************************************************************************)
(* Navigation on a page that lacks any subset of the looked-up elements.   *)
(***************************************************************************)
InitNav ==
    /\ storage = Null
    /\ sysDark \in BOOLEAN
    /\ dom \in SUBSET Elements
    /\ blocks = MaxBlocks
    /\ FreshPage
    /\ uncaught = FALSE
    /\ lastToggle = [theme |-> "none", saved |-> FALSE]

NextNav ==
    \/ init
    \/ DOMContentLoaded
    \/ \E rthrows \in BOOLEAN : RunSetup(rthrows)
    \/ \E y \in ScrollPositions : Scroll(y)
    \/ Tick
    \/ FireTimer
    \/ ClickHomeButton
    \/ ClickScrollTop
    \/ \E key \in Keys : KeydownScrollTop(key)
    \/ ScrollToTop
    \/ KeydownIgnored
    \/ ClickSearchTrigger
    \/ ScrollToSearch
    \/ Reload

SpecNav == InitNav /\ [][NextNav]_vars

(***************************************************************************)
(* The page content: any number of content blocks, and the search form     *)
(* with or without its field.                                              *)
(***************************************************************************)
ContentPages == {Elements \cup {QueryField}, Elements,
                 Elements \ {"searchForm"}}

InitContent ==
    /\ storage = Null
    /\ sysDark \in BOOLEAN
    /\ dom \in ContentPages
    /\ blocks \in 0..MaxBlocks
    /\ FreshPage
    /\ uncaught = FALSE
    /\ lastToggle = [theme |-> "none", saved |-> FALSE]

NextContent ==
    \/ init
    \/ DOMContentLoaded
    \/ \E rthrows \in BOOLEAN : RunSetup(rthrows)
    \/ \E q \in Queries : SubmitSearch(q)
    \/ SubmitWithoutField
    \/ HandleSearch
    \/ Reload

SpecContent == InitContent /\ [][NextContent]_vars

(***************************************************************************)
(* One page session under fair scheduling: time passes while a timer is    *)
(* counting down, and a timer that is due again and again gets to fire.    *)
(***************************************************************************)
InitFair ==
    /\ storage = Null
    /\ sysDark \in BOOLEAN
    /\ dom \in Pages
    /\ blocks = MaxBlocks
    /\ FreshPage
    /\ uncaught = FALSE
    /\ lastToggle = [theme |-> "none", saved |-> FALSE]

NextFair ==
    \/ init
    \/ DOMContentLoaded
    \/ \E rthrows \in BOOLEAN : RunSetup(rthrows)
    \/ \E y \in ScrollPositions : Scroll(y)
    \/ Tick
    \/ FireTimer

SpecFair == InitFair /\ [][NextFair]_vars /\ WF_vars(Tick) /\ SF_vars(FireTimer)

(***************************************************************************)
(* Properties.                                                             *)
(***************************************************************************)
\* the step leaves `theme` applied: in memory and on the root element
Applied(theme) == currentTheme' = theme /\ dataTheme' = theme

\* C1, as stated: whenever "light" or "dark" is stored, every run of the
\* initialization applies exactly the stored value and leaves storage as it was.
C1_StoredThemeAlwaysApplied ==
    [][\A rt \in BOOLEAN :
         (storage \in Themes /\ RunSetup(rt))
            => (Applied(storage) /\ storage' = storage)]_vars

\* C1, amended: with "light" or "dark" stored, initialization applies exactly
\* the stored value when the storage read succeeds and the system theme when
\* the read throws; in both cases the stored value is left as it was.
C1_StoredThemeAppliedWhenReadable ==
    [][\A rt \in BOOLEAN :
         (storage \in Themes /\ RunSetup(rt))
            => /\ Applied(IF rt THEN SystemTheme(sysDark) ELSE storage)
               /\ storage' = storage]_vars

C1_Witness ==
    /\ isInitialized /\ ~toggled /\ initFrom = "stored"
    /\ storage = "light" /\ sysDark
    /\ currentTheme = "light" /\ dataTheme = "light"

\* C2: with nothing stored under the theme key, initialization applies "dark"
\* if the system prefers dark and "light" otherwise, and the key is still
\* missing afterwards.
C2_AbsentFollowsSystem ==
    [][\A rt \in BOOLEAN :
         (storage = Null /\ RunSetup(rt))
            => (Applied(IF sysDark THEN "dark" ELSE "light") /\ storage' = Null)]_vars

C2_Witness ==
    /\ isInitialized /\ ~toggled /\ initFrom = "system"
    /\ storage = Null /\ sysDark
    /\ currentTheme = "dark" /\ dataTheme = "dark"

\* C3, as stated: every toggleTheme call leaves the stored preference and the
\* data-theme attribute equal to the opposite of the theme current before it.
C3_ToggleAlwaysPersists ==
    [][\A wt \in BOOLEAN :
         ToggleTheme(wt)
            => /\ storage' = (IF currentTheme = "dark" THEN "light" ELSE "dark")
               /\ dataTheme' = storage']_vars

\* C3, amended: every toggleTheme call sets the in-memory theme and the
\* data-theme attribute to the opposite of the theme current before it, and
\* stores that value when the storage write succeeds; when the write throws,
\* the stored value is left as it was.
C3_TogglePersistsWhenWritable ==
    [][\A wt \in BOOLEAN :
         ToggleTheme(wt)
            => LET new == IF currentTheme = "dark" THEN "light" ELSE "dark"
               IN /\ Applied(new)
                  /\ storage' = (IF wt THEN storage ELSE new)]_vars

C3_Witness ==
    /\ toggled /\ lastToggle = [theme |-> "dark", saved |-> TRUE]
    /\ storage = "dark" /\ dataTheme = "dark" /\ currentTheme = "dark"

\* C4: once the user has toggled on this page, no handleSystemThemeChange
\* call changes the applied theme.
C4_SystemChangeIgnoredAfterToggle ==
    [][\A rt \in BOOLEAN :
         (toggled /\ HandleSystemThemeChange(rt))
            => (currentTheme' = currentTheme /\ dataTheme' = dataTheme)]_vars

\* C5, as stated: once the controller has initialized, the value under the
\* theme key is missing, "light" or "dark", whatever the storage held before.
C5_StoredValueAlwaysValid ==
    setupRuns > 0 => storage \in {Null} \cup Themes

\* C5, amended: the controller only ever stores "light" or "dark": every
\* change of the value under the theme key yields one of the two, so a value
\* that is missing, "light" or "dark" stays so, and a foreign value found at
\* load stays in place until a toggle replaces it.
C5_OnlyThemesWritten ==
    [][storage' # storage => storage' \in Themes]_vars

C5_Witness ==
    /\ toggled /\ lastToggle.saved
    /\ storage = lastToggle.theme /\ storage = "light" /\ sysDark

\* C6: after an initialization that fell back to the system preference (the
\* stored value being neither "light" nor "dark"), and until the user
\* toggles, every handleSystemThemeChange call applies the new system theme.
C6_SystemTrackedUntilToggle ==
    [][\A rt \in BOOLEAN :
         (initFrom = "system" /\ ~toggled /\ storage \notin Themes
            /\ HandleSystemThemeChange(rt))
            => Applied(IF sysDark THEN "dark" ELSE "light")]_vars

C8_SetupAtMostOnce ==
    /\ setupRuns <= 1
    /\ \A k \in ListenerKinds \ {"DOMContentLoaded"} : listeners[k] <= 1

\* C9: no storage failure escapes a handler; a failed read counts as no
\* stored value (initialization and the system-change handler apply the
\* system theme); a failed write during a toggle leaves the stored value as
\* it was while currentTheme and data-theme take the new theme.
C9_StorageFailuresContained ==
    [][/\ ~uncaught'
       /\ RunSetup(TRUE) => (Applied(IF sysDark THEN "dark" ELSE "light")
                              /\ storage' = storage)
       /\ HandleSystemThemeChange(TRUE)
            => (Applied(IF sysDark THEN "dark" ELSE "light") /\ storage' = storage)
       /\ ToggleTheme(TRUE)
            => /\ storage' = storage
               /\ Applied(IF currentTheme = "dark" THEN "light" ELSE "dark")]_vars

C9_Witness ==
    /\ toggled /\ lastToggle = [theme |-> "dark", saved |-> FALSE]
    /\ currentTheme = "dark" /\ dataTheme = "dark"
    /\ storage = Null /\ ~uncaught

\* C10: when the user's last toggle stored theme T, the initialization of a
\* reloaded page whose storage read succeeds applies T, whatever the system
\* preference is and however it changed in between.
C10_ToggleSurvivesReload ==
    [][(lastToggle.saved /\ ~toggled /\ RunSetup(FALSE))
          => Applied(lastToggle.theme)]_vars

C10_Witness ==
    /\ isInitialized /\ ~toggled /\ initFrom = "stored"
    /\ lastToggle = [theme |-> "dark", saved |-> TRUE]
    /\ ~sysDark /\ currentTheme = "dark" /\ dataTheme = "dark"


\* C11: submitting the search form logs the trimmed value of the field q
\* exactly when that value is not empty, logs nothing for an empty or
\* blank-only field or when the form has no such field, and never prevents
\* the default submission or changes the theme or the storage.
C11_SearchLogsTrimmedQuery ==
    [][HandleSearch =>
         LET NonBlank == {i \in 1..Len(field) : field[i] # " "}
             first == CHOOSE i \in NonBlank : \A j \in NonBlank : i <= j
             last == CHOOSE i \in NonBlank : \A j \in NonBlank : j <= i
         IN /\ IF field # NoField /\ NonBlank # {}
               THEN searchLog' = SubSeq(field, first, last)
               ELSE searchLog' = searchLog
            /\ ~defaultPrevented'
            /\ UNCHANGED <<themeVars, storage>>]_vars

C11_Witness ==
    /\ isInitialized /\ Idle /\ listeners["submit"] = 1
    /\ field = <<" ", "w", " ">>
    /\ searchLog = <<"w">>
    /\ ~defaultPrevented

\* C12: whatever the number of content blocks, once the intro animation has
\* run every block is marked for fade-in and the block at 0-based position i
\* has a delay of i * 120 ms: zero for the first block, strictly increasing
\* with the position.
C12_IntroDelaysStaggered ==
    setupRuns > 0 =>
        /\ Len(fade) = blocks
        /\ \A p \in 1..blocks :
              /\ fade[p].fadeIn
              /\ fade[p].delay = [value |-> (p - 1) * 120, unit |-> "ms"]
        /\ blocks > 0 => fade[1].delay.value = 0
        /\ \A p \in 1..(blocks - 1) : fade[p].delay.value < fade[p + 1].delay.value

C12_Witness ==
    /\ setupRuns = 1 /\ blocks = MaxBlocks
    /\ fade[MaxBlocks].fadeIn
    /\ fade[MaxBlocks].delay.value = (MaxBlocks - 1) * ANIMATION_DELAY

\* C13, as stated: a system preference change handled while no user
\* override is stored writes the new system theme to the storage.
C13_SystemChangeWritesStorage ==
    [][\A rt \in BOOLEAN :
         (~Truthy(storage) /\ HandleSystemThemeChange(rt))
            => storage' = SystemTheme(sysDark)]_vars

\* C13, amended: the persisted preference is created or overwritten by a
\* user toggle only; a system preference change handled while no user
\* override is stored applies the new system theme and leaves the storage
\* as it was.
C13_OnlyToggleWritesStorage ==
    [][/\ storage' # storage => \E wt \in BOOLEAN : ToggleTheme(wt)
       /\ \A rt \in BOOLEAN :
            (~Truthy(storage) /\ HandleSystemThemeChange(rt))
               => (Applied(SystemTheme(sysDark)) /\ storage' = storage)]_vars

C13_Witness ==
    /\ listeners["mqChange"] = 2
    /\ running = [ev |-> "mqChange", left |-> 1]
    /\ storage = Null /\ ~toggled
    /\ currentTheme = SystemTheme(sysDark) /\ dataTheme = currentTheme
    /\ initFrom = "system"


\* C14, as stated: for a burst of scroll events, each less than 80 ms after
\* the one before, toggleScrollButton runs exactly once, after the last
\* event: never twice, and once when every pending timer has fired.
C14_OneRunPerBurst ==
    /\ runs <= 1
    /\ (burst > 0 /\ Len(timers) > 0 /\ TimersIdle) => runs = 1

\* C15, as stated: every scroll-to-top action, from the home button or from
\* the back-to-top button by click, Enter or Space, scrolls the page to
\* offset 0 and leaves the keyboard focus on the control that triggered it.
C15_ScrollToTopKeepsFocus ==
    [][ScrollToTop => (scrollY' = 0 /\ focus' = TriggerOf(running.ev))]_vars

\* C16, as stated: activating the search-trigger button scrolls the search
\* section into view when it exists; when the section is missing, the
\* activation logs a warning and scrolls nothing.
C16_MissingSectionWarns ==
    [][/\ ScrollToSearch =>
            IF "search" \in dom
            THEN scrollY' = SearchOffset /\ lastScroll' = "search"
            ELSE scrollWarned' /\ UNCHANGED <<scrollY, lastScroll>>
       /\ (isInitialized /\ "search" \notin dom /\ ClickSearchTrigger /\ Idle')
            => scrollWarned']_vars

\* C16, amended: activating the search-trigger button scrolls the search
\* section into view when it exists; when the section is missing, no click
\* listener was registered, so the activation runs no handler, scrolls
\* nothing and logs no warning.
C16_MissingSectionDisablesTrigger ==
    [][/\ ScrollToSearch =>
            /\ "search" \in dom
            /\ scrollY' = SearchOffset /\ lastScroll' = "search"
            /\ scrollWarned' = scrollWarned
       /\ (isInitialized /\ "search" \in dom /\ ClickSearchTrigger)
            => Invoking("searchClick")'
       /\ ("search" \notin dom /\ ClickSearchTrigger)
            => /\ Idle'
               /\ ~scrollWarned'
               /\ UNCHANGED <<scrollY, lastScroll>>]_vars

C16_Witness ==
    /\ isInitialized /\ Idle
    /\ "scrollToSearch" \in dom /\ "search" \notin dom
    /\ focus = "scrollToSearch"
    /\ listeners["searchClick"] = 0
    /\ lastScroll = "none" /\ ~scrollWarned

\* C17: whichever of the looked-up elements are absent, initialization
\* raises no error and disables only the features of the absent elements:
\* the theme is determined and applied to the root attribute without a
\* theme button, and the home button scrolls to the top without a
\* back-to-top button.
\* (the state part: no uncaught error, the theme applied, and a listener
\* for exactly the features whose elements are all present)
C17_FeaturesOfPresentElements ==
    LET Needs(k) == CASE k = "themeClick" -> {"themeToggle"}
                      [] k = "homeClick" -> {"homeBtn"}
                      [] k = "searchClick" -> {"scrollToSearch", "search"}
                      [] k \in {"scroll", "topClick", "topKeydown"} -> {"scrollTopBtn"}
                      [] k = "submit" -> {"searchForm"}
                      [] OTHER -> {}
    IN /\ ~uncaught
       /\ isInitialized =>
            /\ currentTheme \in Themes /\ dataTheme = currentTheme
            /\ \A k \in ListenerKinds \ {"DOMContentLoaded"} :
                  listeners[k] > 0 <=> Needs(k) \subseteq dom

\* C17: for every subset of absent elements, the state part above holds in
\* every state, a home-button click after initialization reaches its
\* listener, and every scroll-to-top call brings the page to offset 0.
C17_MissingElementsTolerated ==
    /\ []C17_FeaturesOfPresentElements
    /\ [][(isInitialized /\ ClickHomeButton) => Invoking("homeClick")']_vars
    /\ [][ScrollToTop => (scrollY' = 0 /\ lastScroll' = "top")]_vars

C17_Witness ==
    /\ dom = {"homeBtn"}
    /\ isInitialized /\ Idle /\ ~uncaught
    /\ dataTheme = "dark" /\ currentTheme = "dark"
    /\ focus = "homeBtn" /\ lastScroll = "top" /\ scrollY = 0

\* C18: in every state after initialization has completed, currentTheme is
\* "light" or "dark", the root data-theme attribute equals it, and the theme
\* button, when present, offers the opposite theme in its label and
\* aria-label.
C18_ThemeStateConsistent ==
    isInitialized =>
        /\ currentTheme \in {"light", "dark"}
        /\ dataTheme = currentTheme
        /\ "themeToggle" \in dom =>
              themeLabel = (IF currentTheme = "dark" THEN "toLight" ELSE "toDark")

C18_Witness ==
    /\ isInitialized /\ toggled /\ "themeToggle" \in dom
    /\ storage = "blue"
    /\ currentTheme = "dark" /\ dataTheme = "dark" /\ themeLabel = "toLight"

\* C19: with a storage that never fails, in every state after the first
\* toggle of a page session, whatever toggles and system preference changes
\* follow, the persisted preference equals the applied theme.
C19_StoredEqualsAppliedAfterToggle ==
    toggled => (storage = currentTheme /\ storage = dataTheme)

C19_Witness ==
    /\ toggled /\ Idle /\ initFrom = "system"
    /\ storage = "light" /\ currentTheme = "light" /\ dataTheme = "light"
    /\ sysDark /\ lastToggle.theme = "light"


\* C20, as stated: after any scroll event a visibility recomputation
\* eventually runs and brings the visibility in line with the scroll offset,
\* for every schedule of scroll events, including events that keep arriving
\* less than 80 ms apart.
C20_RecomputationAlwaysFollows ==
    (burst > 0 /\ runs = 0)
        ~> (runs > 0 /\ visible = (scrollY > SCROLL_THRESHOLD))

\* C20, amended: after any scroll event a visibility recomputation
\* eventually runs and brings the visibility in line with the scroll offset,
\* unless from some point on a debounce timer is always counting down, that
\* is, unless scroll events keep arriving less than 80 ms apart for ever.
C20_RecomputationFollowsPause ==
    \/ (burst > 0 /\ runs = 0)
          ~> (runs > 0 /\ visible = (scrollY > SCROLL_THRESHOLD))
    \/ <>[](\E i \in 1..Len(timers) : timers[i] > 0)

C20_Witness ==
    /\ burst = MaxBurst /\ runs = 1 /\ Len(timers) = 1 /\ TimersIdle
    /\ scrollY > SCROLL_THRESHOLD /\ visible

=============================================================================
